---- MODULE Spec2Model ----
(***************************************************************************)
(* Model of the Python SDK of contextprotocol/core:                        *)
(*   context_protocol_sdk/graph_node.py   NodeBuilder, EdgeBuilder,        *)
(*                                        GraphNode                        *)
(*   context_protocol_sdk/node_type_registry.py   NodeTypeRegistry         *)
(*   context_protocol_sdk/types.py        NodeProperty, EdgeStatus, ...    *)
(*                                                                         *)
(* A GraphNode client is constructed (Init), builders are obtained from    *)
(* it, filled fluently and committed.  Every client operation that passes  *)
(* its precondition checks and reaches the place of its contract call is   *)
(* appended to `calls`, as is every registry read; a coroutine advances    *)
(* one awaited client or registry call per step.                           *)
(***************************************************************************)
EXTENDS Integers, Sequences, FiniteSets, TLC

\* ---------------------------------------------------------------- bounds
MaxProps == 2       \* properties accumulated on one builder
MaxDocs  == 2       \* documents accumulated on one builder
MaxOps   == 2       \* operations started on one client session
MaxShared == 1      \* properties, and documents, of a builder sharing its client
MaxCommits == 1     \* commits started on a chain that may reject calls

\* ------------------------------------------------------------- universes
None == "None"                          \* Python's None, where a string may stand
NoBuilder == [builder |-> None]         \* no builder held
NoCall    == [op |-> None]              \* no contract call issued
NoRecord  == << >>                      \* no edge record on chain
NoAddr    == [body |-> None, casing |-> None]   \* an address that is None

GraphNodeNames == {"Person", "Org"}     \* node type names given to node()
EdgeNames      == {"knows"}             \* edge names given to edge()
Descriptors    == {"desc"}              \* descriptors given to edge()
Keys           == {"k1", "k2"}          \* property keys
Values         == {"v"}                 \* property values (opaque)
Urls           == {"u1", "u2"}          \* document urls

\* types.py: class EdgeStatus / class PropertyType
EdgeStatus   == {"INVALID", "PENDING", "ACCEPTED", "REJECTED"}
PropertyType == {"INVALID", "STRING", "NUMBER", "BOOLEAN", "ADDRESS", "BYTES"}

\* types.py: @dataclass NodeProperty; property_id defaults to ''
NodeProperty(k, v, t) ==
    [key |-> k, value |-> v, type |-> t, property_id |-> ""]

\* ------------------------------------------------------------- addresses
\* A raw address string is a 20-byte hex body written in some letter case,
\* or a string that is no address at all.
AddrBodies == {"a1", "b2"}
Casings    == {"lower", "upper", "checksum"}
RawAddrs   == [body : AddrBodies, casing : Casings] \cup {[body |-> "zz", casing |-> "bad"]}

\* The address stored as given
to_checksum_addressAsGiven(raw) == raw

\* eth_utils.to_checksum_address: normalises the case of a valid address,
\* raises for anything else.
CanNormalize(raw) == raw.body \in AddrBodies
to_checksum_address(raw) == [body |-> raw.body, casing |-> "checksum"]

\* ------------------------------------------------------------------ state
VARIABLES
    init_error,          \* exception raised by GraphNode.__init__, or None
    account,             \* GraphNode.account: TRUE bound, FALSE None
    contract,            \* GraphNode.contract: TRUE bound, FALSE None
    node_type_registry,  \* GraphNode.node_type_registry: TRUE bound, FALSE None
    node_id,             \* GraphNode.node_id
    node_type_id,        \* GraphNode.node_type_id
    graph_node_name,     \* GraphNode.graph_node_name
    nb,                  \* the NodeBuilder the caller holds, or None
    eb,                  \* the EdgeBuilder the caller holds, or None
    other,               \* a second NodeBuilder of the client, and its save()
    onchain_edge,        \* the edge record the chain holds for the builder's edge
    calls,               \* contract / registry calls issued so far, in order
    pc,                  \* the awaited call the running coroutine is at, or "idle"
    op,                  \* the operation running or last finished
    base,                \* Len(calls) when that operation started
    i,                   \* loop index of the running coroutine
    edge_id,             \* local edge_id of EdgeBuilder.save / accept
    result,              \* value returned by the last finished operation
    error,               \* exception raised by the last finished operation
    ops                  \* operations started on this client

client == <<init_error, account, contract, node_type_registry,
            node_id, node_type_id, graph_node_name>>
frame  == <<pc, op, base, i, edge_id, result, error, ops>>
vars   == <<init_error, account, contract, node_type_registry,
            node_id, node_type_id, graph_node_name,
            nb, eb, other, onchain_edge, calls,
            pc, op, base, i, edge_id, result, error, ops>>

\* ------------------------------------------------------ GraphNode.__init__
\* The configuration surface: which of the three settings are supplied, by
\* the GraphNodeConfig or by the environment.
Configs == [private_key : BOOLEAN, node_address : BOOLEAN,
            node_type_registry_address : BOOLEAN]

\* __init__ without the wallet check of line 143
InitErrorNever(cfg) == None

\* GraphNode._check_wallet, as evaluated inside __init__
InitError(cfg) ==
    IF cfg.node_address /\ ~cfg.private_key THEN "Wallet not initialized" ELSE None

\* On-chain records getEdge can hold for one (name, to, descriptor):
\* none, or (from, to, descriptor, status, ...).
OnchainEdges == {NoRecord} \cup
    {<<"from", "to", "desc", s>> : s \in {"PENDING", "ACCEPTED", "REJECTED"}}

\* No second NodeBuilder: nothing built, its save() not started
NoOther == [nb |-> NoBuilder, pc |-> "idle", i |-> 0, base |-> 0,
            started |-> FALSE, alone |-> FALSE, error |-> None]

Init ==
    \E cfg \in Configs :
        /\ init_error = InitError(cfg)
        /\ account = cfg.private_key
        /\ contract = (cfg.node_address /\ InitError(cfg) = None)
        /\ node_type_registry =
               (cfg.node_type_registry_address /\ InitError(cfg) = None)
        /\ node_id = ""
        /\ node_type_id = ""
        /\ graph_node_name = ""
        /\ nb = NoBuilder
        /\ eb = NoBuilder
        /\ other = NoOther
        /\ onchain_edge = NoRecord
        /\ calls = << >>
        /\ pc = "idle"
        /\ op = None
        /\ base = 0
        /\ i = 0
        /\ edge_id = None
        /\ result = None
        /\ error = None
        /\ ops = 0

\* A client exists and no coroutine is running on it.
Idle == init_error = None /\ pc = "idle"

\* The caller is still assembling: builders are filled before the first
\* operation of the session is started.
Assembling == Idle /\ ops = 0

\* ----------------------------------------------------- GraphNode checks
_check_wallet   == IF ~account THEN "Wallet not initialized" ELSE None
_check_contract == IF ~contract THEN "Contract not initialized" ELSE None
_check_registry == IF ~node_type_registry THEN "Registry not initialized" ELSE None

\* First failing check of a list of checks, or None
FirstError(checks) ==
    IF \E n \in 1..Len(checks) : checks[n] # None
    THEN checks[CHOOSE n \in 1..Len(checks) :
                    checks[n] # None /\ \A m \in 1..(n-1) : checks[m] = None]
    ELSE None

\* ------------------------------------------- GraphNode client operations
\* Each yields [err, ret, call]: the exception raised (or None), the value
\* returned, and the contract call issued (or None).
Raised(e)      == [err |-> e, ret |-> None, call |-> NoCall]
Returned(r, c) == [err |-> None, ret |-> r, call |-> c]

\* add_node with the check the other mutating methods make, the contract
\* handle alone
add_nodeContractOnly(name) ==
    IF _check_contract # None THEN Raised(_check_contract)
    ELSE Returned([node_id |-> "generated_node_id", properties |-> << >>],
                  [op |-> "add_node", graph_node_name |-> name])

add_node(name) ==
    LET e == FirstError(<<_check_contract, _check_registry>>) IN
    IF e # None THEN Raised(e)
    ELSE Returned([node_id |-> "generated_node_id", properties |-> << >>],
                  [op |-> "add_node", graph_node_name |-> name])

\* add_edge handing the builder's from-address to the contract
add_edgeFromBuilder(edge_name, to_node_address, descriptor) ==
    LET e == FirstError(<<_check_contract, _check_registry>>) IN
    IF e # None THEN Raised(e)
    ELSE Returned("edge_id",
                  [op |-> "add_edge", edge_name |-> edge_name,
                   from_node_address |-> eb.from_node_address,
                   to_node_address |-> to_node_address, descriptor |-> descriptor])

add_edge(edge_name, to_node_address, descriptor) ==
    LET e == FirstError(<<_check_contract, _check_registry>>) IN
    IF e # None THEN Raised(e)
    ELSE Returned("edge_id",
                  [op |-> "add_edge", edge_name |-> edge_name,
                   to_node_address |-> to_node_address, descriptor |-> descriptor])

set_edge_properties(eid, edge_name, properties) ==
    IF _check_contract # None THEN Raised(_check_contract)
    ELSE Returned(None,
                  [op |-> "set_edge_properties", edge_id |-> eid,
                   edge_name |-> edge_name, properties |-> properties])

add_properties(nid, properties) ==
    IF _check_contract # None THEN Raised(_check_contract)
    ELSE Returned(None,
                  [op |-> "add_properties", node_id |-> nid,
                   properties |-> properties])

add_document(nid, url) ==
    IF _check_contract # None THEN Raised(_check_contract)
    ELSE Returned("document_id",
                  [op |-> "add_document", node_id |-> nid, url |-> url])

remove_document(url) ==
    IF _check_contract # None THEN Raised(_check_contract)
    ELSE Returned(None, [op |-> "remove_document", url |-> url])

\* answer_edge with the lifecycle checked by the client itself: an edge
\* the chain holds as answered is refused
answer_edgePendingOnly(to_node_address, eid, status) ==
    IF _check_contract # None THEN Raised(_check_contract)
    ELSE IF onchain_edge # NoRecord /\ onchain_edge[4] # "PENDING"
         THEN Raised("Edge is not pending")
         ELSE Returned(None,
                       [op |-> "answer_edge", to_node_address |-> to_node_address,
                        edge_id |-> eid, status |-> status])

answer_edge(to_node_address, eid, status) ==
    IF _check_contract # None THEN Raised(_check_contract)
    ELSE Returned(None,
                  [op |-> "answer_edge", to_node_address |-> to_node_address,
                   edge_id |-> eid, status |-> status])

\* Methods class GraphNode defines (graph_node.py 124-270)
GraphNodeMethods ==
    {"deploy", "node", "edge", "add_node", "add_edge", "set_edge_properties",
     "get_properties", "add_properties", "get_property", "add_document",
     "remove_document", "get_documents", "answer_edge"}

\* ------------------------------------------------ coroutine bookkeeping
\* The calls issued by the operation running or last finished
OpCalls == SubSeq(calls, base + 1, Len(calls))

Log(r) == IF r.call = NoCall THEN calls ELSE Append(calls, r.call)

\* the running operation returns r / raises e
Return(r) == pc' = "idle" /\ result' = r /\ error' = None

\* The exception is caught and noted, the coroutine goes on
RaiseSwallowed(e) == pc' = pc /\ result' = None /\ error' = e

Raise(e)  == pc' = "idle" /\ result' = None /\ error' = e

\* a new operation o starts
Start(o) ==
    /\ Idle
    /\ ops < MaxOps
    /\ ops' = ops + 1
    /\ op' = o
    /\ base' = Len(calls)

\* -------------------------------------------- NodeTypeRegistry.property_id
\* What the registry contract may answer for (node_type_id, property_key):
\* the id it assigned to the key, '' when the key is not declared for the
\* node type, or no answer at all (the read call raises).
TransportError == "TransportError"
RegistryId(ntid, key) == "pid:" \o ntid \o ":" \o key
RegistryAnswers(ntid, key) == {RegistryId(ntid, key), "", TransportError}

\* node_type_registry.property_id(node_type_id, property_key), answered a
property_id(ntid, key, a) ==
    IF ~node_type_registry THEN Raised("AttributeError")
    ELSE IF a = TransportError
         THEN [err |-> TransportError, ret |-> None,
               call |-> [op |-> "property_id", node_type_id |-> ntid,
                         property_key |-> key]]
         ELSE Returned(a, [op |-> "property_id", node_type_id |-> ntid,
                           property_key |-> key])

\* ------------------------------------------------------------ NodeBuilder
\* GraphNode.node(name): a fresh NodeBuilder
Node(name) ==
    /\ Idle
    /\ nb = NoBuilder
    /\ nb' = [graph_node_name |-> name, properties |-> << >>, documents |-> << >>]
    /\ UNCHANGED <<client, other, eb, onchain_edge, calls, frame>>

\* NodeBuilder.property(key, value)
NbProperty(key, value) ==
    /\ Assembling
    /\ nb # NoBuilder
    /\ Len(nb.properties) < MaxProps
    /\ nb' = [nb EXCEPT !.properties =
                 Append(@, NodeProperty(key, value, "INVALID"))]
    /\ UNCHANGED <<client, other, eb, onchain_edge, calls, frame>>

\* NodeBuilder.document(url)
NbDocument(url) ==
    /\ Assembling
    /\ nb # NoBuilder
    /\ Len(nb.documents) < MaxDocs
    /\ nb' = [nb EXCEPT !.documents = Append(@, url)]
    /\ UNCHANGED <<client, other, eb, onchain_edge, calls, frame>>

\* The resolution loop left out: straight to line 44
NbAfterResolveSkipped(n) == "nb_add_properties"

\* Where NodeBuilder.save goes after add_node / after the n-th registry
\* read: the next property of the loop of lines 38-41, else line 44.
NbAfterResolve(n) ==
    IF n < Len(nb.properties) THEN "nb_property_id" ELSE "nb_add_properties"

\* NodeBuilder.save, lines 30-35: entry and `await self.parent.add_node(...)`
NbSave ==
    /\ Start("NodeBuilder.save")
    /\ nb # NoBuilder
    /\ LET r == add_node(nb.graph_node_name) IN
        /\ calls' = Log(r)
        /\ IF r.err # None
           THEN Raise(r.err) /\ i' = 0
           ELSE /\ pc' = NbAfterResolve(0)
                /\ i' = 1
                /\ result' = None
                /\ error' = None
    /\ UNCHANGED <<client, other, nb, eb, onchain_edge, edge_id>>

\* NodeBuilder.save, lines 38-41: one iteration of the resolution loop
NbPropertyId ==
    /\ pc = "nb_property_id"
    /\ \E a \in RegistryAnswers(node_type_id, nb.properties[i].key) :
         LET r == property_id(node_type_id, nb.properties[i].key, a) IN
           /\ calls' = Log(r)
           /\ IF r.err # None
              THEN Raise(r.err) /\ UNCHANGED <<nb, i>>
              ELSE /\ nb' = [nb EXCEPT !.properties[i].property_id = r.ret]
                   /\ pc' = NbAfterResolve(i)
                   /\ i' = i + 1
                   /\ UNCHANGED <<result, error>>
    /\ UNCHANGED <<client, other, eb, onchain_edge, op, base, edge_id, ops>>

\* A save that would skip what an earlier save of the session submitted
NbAfterDocumentOnce(n) ==
    IF ops > 1 THEN "nb_return"
    ELSE IF n < Len(nb.documents) THEN "nb_add_document" ELSE "nb_return"

\* Where NodeBuilder.save goes after add_properties / after the n-th
\* document: the next document of the loop of lines 47-48, else line 50.
NbAfterDocument(n) ==
    IF n < Len(nb.documents) THEN "nb_add_document" ELSE "nb_return"

\* NodeBuilder.save, line 44: `await self.parent.add_properties(...)`
\* (and line 50 when there is no document)
NbAddProperties ==
    /\ pc = "nb_add_properties"
    /\ LET r == add_properties(node_id, nb.properties) IN
        /\ calls' = Log(r)
        /\ IF r.err # None
           THEN Raise(r.err) /\ i' = i
           ELSE IF NbAfterDocument(0) = "nb_return"
                THEN Return(node_id) /\ i' = i
                ELSE /\ pc' = "nb_add_document"
                     /\ i' = 1
                     /\ UNCHANGED <<result, error>>
    /\ UNCHANGED <<client, other, nb, eb, onchain_edge, op, base, edge_id, ops>>

\* NodeBuilder.save, lines 47-48: one iteration of the document loop
\* (and line 50 after the last one)
NbAddDocument ==
    /\ pc = "nb_add_document"
    /\ LET r == add_document(node_id, nb.documents[i]) IN
        /\ calls' = Log(r)
        /\ IF r.err # None
           THEN Raise(r.err) /\ i' = i
           ELSE IF NbAfterDocument(i) = "nb_return"
                THEN Return(node_id) /\ i' = i
                ELSE /\ pc' = "nb_add_document"
                     /\ i' = i + 1
                     /\ UNCHANGED <<result, error>>
    /\ UNCHANGED <<client, other, nb, eb, onchain_edge, op, base, edge_id, ops>>

NextNode ==
    \/ \E name \in GraphNodeNames : Node(name)
    \/ \E key \in Keys, value \in Values : NbProperty(key, value)
    \/ \E url \in Urls : NbDocument(url)
    \/ NbSave
    \/ NbPropertyId
    \/ NbAddProperties
    \/ NbAddDocument

SpecNode == Init /\ [][NextNode]_vars

\* ------------------------------------------------------------ EdgeBuilder
\* GraphNode.edge(edge_type, descriptor): a fresh EdgeBuilder
Edge(edge_type, descriptor) ==
    /\ Idle
    /\ eb = NoBuilder
    /\ eb' = [edge_name |-> edge_type, descriptor |-> descriptor,
              properties |-> << >>, documents |-> << >>,
              from_node_address |-> NoAddr, to_node_address |-> NoAddr]
    /\ UNCHANGED <<client, other, nb, onchain_edge, calls, frame>>

\* EdgeBuilder.property(key, value)
EbProperty(key, value) ==
    /\ Assembling
    /\ eb # NoBuilder
    /\ Len(eb.properties) < MaxProps
    /\ eb' = [eb EXCEPT !.properties =
                 Append(@, NodeProperty(key, value, "INVALID"))]
    /\ UNCHANGED <<client, other, nb, onchain_edge, calls, frame>>

\* EdgeBuilder.document(url)
EbDocument(url) ==
    /\ Assembling
    /\ eb # NoBuilder
    /\ Len(eb.documents) < MaxDocs
    /\ eb' = [eb EXCEPT !.documents = Append(@, url)]
    /\ UNCHANGED <<client, other, nb, onchain_edge, calls, frame>>

\* A synchronous builder call o ends, with exception e or None
Sync(o, e) ==
    /\ op' = o
    /\ result' = None
    /\ error' = e
    /\ UNCHANGED <<pc, base, i, edge_id, ops>>

\* EdgeBuilder.from_node(node_address)
FromNode(raw) ==
    /\ Assembling
    /\ eb # NoBuilder
    /\ IF CanNormalize(raw)
       THEN /\ eb' = [eb EXCEPT !.from_node_address = to_checksum_address(raw)]
            /\ Sync("EdgeBuilder.from_node", None)
       ELSE /\ eb' = eb
            /\ Sync("EdgeBuilder.from_node", "ValueError")
    /\ UNCHANGED <<client, other, nb, onchain_edge, calls>>

\* EdgeBuilder.to_node(node_address)
ToNode(raw) ==
    /\ Assembling
    /\ eb # NoBuilder
    /\ IF CanNormalize(raw)
       THEN /\ eb' = [eb EXCEPT !.to_node_address = to_checksum_address(raw)]
            /\ Sync("EdgeBuilder.to_node", None)
       ELSE /\ eb' = eb
            /\ Sync("EdgeBuilder.to_node", "ValueError")
    /\ UNCHANGED <<client, other, nb, onchain_edge, calls>>

\* The target check left out
TargetUnsetNever == FALSE

\* `not self.to_node_address` (lines 80, 102, 113)
TargetUnset == eb.to_node_address = NoAddr

TargetError == "Target node address must be set"

\* The `if self.properties` guard of line 89 left out
EbAfterAddEdgeUnguarded == "eb_set_edge_properties"

\* Where EdgeBuilder.save goes after add_edge: line 90 when properties
\* were accumulated, else the document loop
EbAfterAddEdge ==
    IF eb.properties # << >> THEN "eb_set_edge_properties"
    ELSE IF eb.documents # << >> THEN "eb_add_document"
    ELSE "eb_return"

\* Where EdgeBuilder.save goes after set_edge_properties / after the n-th
\* document: the next document of the loop of lines 96-97, else line 99
EbAfterDocument(n) ==
    IF n < Len(eb.documents) THEN "eb_add_document" ELSE "eb_return"

\* EdgeBuilder.save, lines 79-87: the target check and
\* `edge_id = await self.parent.add_edge(...)`
EbSave ==
    /\ Start("EdgeBuilder.save")
    /\ eb # NoBuilder
    /\ IF TargetUnset
       THEN Raise(TargetError) /\ UNCHANGED <<calls, i, edge_id>>
       ELSE LET r == add_edge(eb.edge_name, eb.to_node_address, eb.descriptor) IN
            /\ calls' = Log(r)
            /\ IF r.err # None
               THEN Raise(r.err) /\ UNCHANGED <<i, edge_id>>
               ELSE /\ edge_id' = r.ret
                    /\ i' = 1
                    /\ IF EbAfterAddEdge = "eb_return"
                       THEN Return(r.ret)
                       ELSE /\ pc' = EbAfterAddEdge
                            /\ result' = None
                            /\ error' = None
    /\ UNCHANGED <<client, other, nb, eb, onchain_edge>>

\* EdgeBuilder.save, lines 89-94: `await self.parent.set_edge_properties(...)`
EbSetEdgeProperties ==
    /\ pc = "eb_set_edge_properties"
    /\ LET r == set_edge_properties(edge_id, eb.edge_name, eb.properties) IN
        /\ calls' = Log(r)
        /\ IF r.err # None
           THEN Raise(r.err)
           ELSE IF EbAfterDocument(0) = "eb_return"
                THEN Return(edge_id)
                ELSE pc' = "eb_add_document" /\ UNCHANGED <<result, error>>
    /\ UNCHANGED <<client, other, nb, eb, onchain_edge, op, base, i, edge_id, ops>>

\* EdgeBuilder.save, lines 96-99: one iteration of the document loop
EbAddDocument ==
    /\ pc = "eb_add_document"
    /\ LET r == add_document(edge_id, eb.documents[i]) IN
        /\ calls' = Log(r)
        /\ IF r.err # None
           THEN Raise(r.err) /\ i' = i
           ELSE IF EbAfterDocument(i) = "eb_return"
                THEN Return(edge_id) /\ i' = i
                ELSE /\ pc' = "eb_add_document"
                     /\ i' = i + 1
                     /\ UNCHANGED <<result, error>>
    /\ UNCHANGED <<client, other, nb, eb, onchain_edge, op, base, edge_id, ops>>

\* accept() continuing the way save() does after add_edge
EbAcceptNextAsSave == EbAfterAddEdge

\* Where EdgeBuilder.accept goes after add_edge: line 110
EbAcceptNext == "eb_answer_edge"

\* EdgeBuilder.accept, lines 101-109: the target check and
\* `edge_id = await self.parent.add_edge(...)`
EbAccept ==
    /\ Start("EdgeBuilder.accept")
    /\ eb # NoBuilder
    /\ IF TargetUnset
       THEN Raise(TargetError) /\ UNCHANGED <<calls, edge_id>>
       ELSE LET r == add_edge(eb.edge_name, eb.to_node_address, eb.descriptor) IN
            /\ calls' = Log(r)
            /\ IF r.err # None
               THEN Raise(r.err) /\ UNCHANGED edge_id
               ELSE /\ edge_id' = r.ret
                    /\ pc' = EbAcceptNext
                    /\ result' = None
                    /\ error' = None
    /\ UNCHANGED <<client, other, nb, eb, onchain_edge, i>>

\* EdgeBuilder.accept, line 110:
\* `await self.parent.answer_edge(self.to_node_address, edge_id, ACCEPTED)`
EbAnswerEdge ==
    /\ pc = "eb_answer_edge"
    /\ LET r == answer_edge(eb.to_node_address, edge_id, "ACCEPTED") IN
        /\ calls' = Log(r)
        /\ IF r.err # None THEN Raise(r.err) ELSE Return(None)
    /\ UNCHANGED <<client, other, nb, eb, onchain_edge, op, base, i, edge_id, ops>>

\* self.parent.get_edge(edge_name, to_node_address, descriptor): the
\* attribute is looked up on the GraphNode, which defines no such method;
\* were it defined, it would hand back what the chain holds
get_edge(edge_name, to_node_address, descriptor) ==
    IF "get_edge" \notin GraphNodeMethods THEN Raised("AttributeError")
    ELSE Returned(onchain_edge,
                  [op |-> "get_edge", edge_name |-> edge_name,
                   to_node_address |-> to_node_address, descriptor |-> descriptor])

\* EdgeBuilder.status, lines 112-121
EbStatus ==
    /\ Start("EdgeBuilder.status")
    /\ eb # NoBuilder
    /\ IF TargetUnset
       THEN Raise(TargetError) /\ UNCHANGED calls
       ELSE LET r == get_edge(eb.edge_name, eb.to_node_address, eb.descriptor) IN
            /\ calls' = Log(r)
            /\ IF r.err # None
               THEN Raise(r.err)
               ELSE Return(IF r.ret # NoRecord THEN r.ret[4] ELSE "INVALID")
    /\ UNCHANGED <<client, other, nb, eb, onchain_edge, i, edge_id>>

\* The chain: the edge record getEdge would find is written, answered or
\* absent independently of this client.
ChainEdge(rec) ==
    /\ Assembling
    /\ eb = NoBuilder
    /\ onchain_edge' = rec
    /\ UNCHANGED <<client, other, nb, eb, calls, frame>>

NextEdge ==
    \/ \E edge_type \in EdgeNames, descriptor \in Descriptors :
          Edge(edge_type, descriptor)
    \/ \E key \in Keys, value \in Values : EbProperty(key, value)
    \/ \E url \in Urls : EbDocument(url)
    \/ \E raw \in RawAddrs : FromNode(raw)
    \/ \E raw \in RawAddrs : ToNode(raw)
    \/ EbSave
    \/ EbSetEdgeProperties
    \/ EbAddDocument
    \/ EbAccept
    \/ EbAnswerEdge
    \/ EbStatus
    \/ \E rec \in OnchainEdges : ChainEdge(rec)

SpecEdge == Init /\ [][NextEdge]_vars

\* ------------------------------------------------ direct client operations
\* The caller awaits one operation of the GraphNode itself.  Arguments
\* are drawn from the values the builders pass.
NodeIds     == {"", "generated_node_id"}
EdgeIds     == {"edge_id"}
PropLists   == {<< >>, <<NodeProperty("k1", "v", "INVALID")>>}
Answers     == {"ACCEPTED", "REJECTED"}
CheckedAddrs == {to_checksum_address(raw) : raw \in {x \in RawAddrs : CanNormalize(x)}}

\* `await client.<operation>(...)` yielding r
Await(o, r) ==
    /\ Start(o)
    /\ calls' = Log(r)
    /\ IF r.err # None THEN Raise(r.err) ELSE Return(r.ret)
    /\ UNCHANGED <<client, other, nb, eb, onchain_edge, i, edge_id>>

AddNode(name)                 == Await("add_node", add_node(name))
AddProperties(nid, props)     == Await("add_properties", add_properties(nid, props))
AddEdge(name, to, descriptor) == Await("add_edge", add_edge(name, to, descriptor))
SetEdgeProperties(eid, name, props) ==
    Await("set_edge_properties", set_edge_properties(eid, name, props))
AddDocument(nid, url)         == Await("add_document", add_document(nid, url))
RemoveDocument(url)           == Await("remove_document", remove_document(url))
AnswerEdge(to, eid, status)   == Await("answer_edge", answer_edge(to, eid, status))

NextClient ==
    \/ \E name \in GraphNodeNames : AddNode(name)
    \/ \E nid \in NodeIds, props \in PropLists : AddProperties(nid, props)
    \/ \E name \in EdgeNames, to \in CheckedAddrs, d \in Descriptors :
          AddEdge(name, to, d)
    \/ \E eid \in EdgeIds, name \in EdgeNames, props \in PropLists :
          SetEdgeProperties(eid, name, props)
    \/ \E nid \in NodeIds, url \in Urls : AddDocument(nid, url)
    \/ \E url \in Urls : RemoveDocument(url)
    \/ \E to \in CheckedAddrs, eid \in EdgeIds, status \in Answers :
          AnswerEdge(to, eid, status)

SpecClient == Init /\ [][NextClient]_vars

\* ------------------------------------------- a chain that rejects calls
\* The contract call of a client operation is a transaction the chain may
\* reject: the operation then raises what the chain client raised.
ContractRevert == "ContractRevert"

\* What the client operation yielding r yields when the chain rejects its
\* call (its own checks still come first)
Rejected(r) ==
    IF r.err # None THEN r
    ELSE [err |-> ContractRevert, ret |-> None, call |-> r.call]

\* The client call a suspended builder coroutine is about to await
PendingCall ==
    CASE pc = "nb_add_properties" -> add_properties(node_id, nb.properties)
      [] pc = "nb_add_document" -> add_document(node_id, nb.documents[i])
      [] pc = "eb_set_edge_properties" ->
            set_edge_properties(edge_id, eb.edge_name, eb.properties)
      [] pc = "eb_add_document" -> add_document(edge_id, eb.documents[i])
      [] pc = "eb_answer_edge" ->
            answer_edge(eb.to_node_address, edge_id, "ACCEPTED")

\* The awaited call of a builder commit is rejected: the exception leaves
\* the coroutine (save and accept hold no try block)
ChainRejects ==
    /\ pc \in {"nb_add_properties", "nb_add_document", "eb_set_edge_properties",
               "eb_add_document", "eb_answer_edge"}
    /\ Rejected(PendingCall).err = ContractRevert
    /\ calls' = Log(Rejected(PendingCall))
    /\ Raise(ContractRevert)
    /\ UNCHANGED <<client, other, nb, eb, onchain_edge, op, base, i, edge_id, ops>>

\* The first call of a commit (add_node, add_edge) is rejected
FirstCallRejected(o, r) ==
    /\ Start(o)
    /\ Rejected(r).err = ContractRevert
    /\ calls' = Log(Rejected(r))
    /\ Raise(ContractRevert)
    /\ UNCHANGED <<client, other, nb, eb, onchain_edge, i, edge_id>>

NbSaveRejected ==
    /\ nb # NoBuilder
    /\ FirstCallRejected("NodeBuilder.save", add_node(nb.graph_node_name))

EbSaveRejected ==
    /\ eb # NoBuilder
    /\ ~TargetUnset
    /\ FirstCallRejected("EdgeBuilder.save",
           add_edge(eb.edge_name, eb.to_node_address, eb.descriptor))

EbAcceptRejected ==
    /\ eb # NoBuilder
    /\ ~TargetUnset
    /\ FirstCallRejected("EdgeBuilder.accept",
           add_edge(eb.edge_name, eb.to_node_address, eb.descriptor))

\* ------------------------------------------------------- builder commits
\* A session in which the caller works with one builder, a NodeBuilder or
\* an EdgeBuilder, and commits it, on a chain that may reject calls.
\* another commit may be started
MayCommit == ops < MaxCommits

NextCommit ==
    \/ \E name \in GraphNodeNames : eb = NoBuilder /\ Node(name)
    \/ \E key \in Keys, value \in Values : NbProperty(key, value)
    \/ \E url \in Urls : NbDocument(url)
    \/ MayCommit /\ NbSave
    \/ NbPropertyId
    \/ NbAddProperties
    \/ NbAddDocument
    \/ \E edge_type \in EdgeNames, descriptor \in Descriptors :
          nb = NoBuilder /\ Edge(edge_type, descriptor)
    \/ \E key \in Keys, value \in Values : EbProperty(key, value)
    \/ \E url \in Urls : EbDocument(url)
    \/ \E raw \in RawAddrs : ToNode(raw)
    \/ MayCommit /\ EbSave
    \/ EbSetEdgeProperties
    \/ EbAddDocument
    \/ MayCommit /\ EbAccept
    \/ EbAnswerEdge
    \/ ChainRejects
    \/ MayCommit /\ NbSaveRejected
    \/ MayCommit /\ EbSaveRejected
    \/ MayCommit /\ EbAcceptRejected

SpecCommit == Init /\ [][NextCommit]_vars

\* ---------------------------------------------------------- builder saves
\* A session in which the caller works with one builder, a NodeBuilder or
\* an EdgeBuilder, and saves it, possibly more than once.
NextSave ==
    \/ \E name \in GraphNodeNames : eb = NoBuilder /\ Node(name)
    \/ \E key \in Keys, value \in Values : NbProperty(key, value)
    \/ \E url \in Urls : NbDocument(url)
    \/ NbSave
    \/ NbPropertyId
    \/ NbAddProperties
    \/ NbAddDocument
    \/ \E edge_type \in EdgeNames, descriptor \in Descriptors :
          nb = NoBuilder /\ Edge(edge_type, descriptor)
    \/ \E key \in Keys, value \in Values : EbProperty(key, value)
    \/ \E url \in Urls : EbDocument(url)
    \/ \E raw \in RawAddrs : ToNode(raw)
    \/ EbSave
    \/ EbSetEdgeProperties
    \/ EbAddDocument

SpecSave == Init /\ [][NextSave]_vars

\* ------------------------------------------- two NodeBuilders, one client
\* The caller holds two NodeBuilders made by the same client and runs the
\* save() of each as a task of its own: the tasks take turns at the awaited
\* calls. The first builder is nb with the frame pc, i; the second is
\* other.nb with other.pc, other.i. Both read the session's node_id and
\* node_type_id at the moment of each call.

\* GraphNode.node(name), a second time
OtherNode(name) ==
    /\ Assembling
    /\ nb # NoBuilder
    /\ other.nb = NoBuilder
    /\ other' = [other EXCEPT !.nb = [graph_node_name |-> name,
                                     properties |-> << >>,
                                     documents |-> << >>]]
    /\ UNCHANGED <<client, nb, eb, onchain_edge, calls, frame>>

\* NodeBuilder.property(key, value) on the second builder
OtherProperty(key, value) ==
    /\ Assembling
    /\ other.nb # NoBuilder
    /\ ~other.started
    /\ Len(other.nb.properties) < MaxShared
    /\ other' = [other EXCEPT !.nb.properties =
                    Append(@, NodeProperty(key, value, "INVALID"))]
    /\ UNCHANGED <<client, nb, eb, onchain_edge, calls, frame>>

\* NodeBuilder.document(url) on the second builder
OtherDocument(url) ==
    /\ Assembling
    /\ other.nb # NoBuilder
    /\ ~other.started
    /\ Len(other.nb.documents) < MaxShared
    /\ other' = [other EXCEPT !.nb.documents = Append(@, url)]
    /\ UNCHANGED <<client, nb, eb, onchain_edge, calls, frame>>

\* Where the second save goes after add_node / after the n-th registry read
OtherAfterResolve(n) ==
    IF n < Len(other.nb.properties) THEN "nb_property_id" ELSE "nb_add_properties"

\* Where the second save goes after add_properties / the n-th document
OtherAfterDocument(n) ==
    IF n < Len(other.nb.documents) THEN "nb_add_document" ELSE "nb_return"

\* the second save() raises e
OtherRaise(e) == [other EXCEPT !.pc = "idle", !.error = e]

\* NodeBuilder.save of the second builder, lines 30-35; the task may be
\* started while the first save() is at one of its awaits
OtherSave ==
    /\ init_error = None
    /\ other.nb # NoBuilder
    /\ ~other.started
    /\ LET r == add_node(other.nb.graph_node_name)
           o == [other EXCEPT !.started = TRUE, !.alone = (pc = "idle"),
                              !.base = Len(calls)]
       IN  /\ calls' = Log(r)
           /\ other' = IF r.err # None
                       THEN [o EXCEPT !.pc = "idle", !.error = r.err]
                       ELSE [o EXCEPT !.pc = OtherAfterResolve(0), !.i = 1]
    /\ UNCHANGED <<client, nb, eb, onchain_edge, frame>>

\* lines 38-41 of the second save: one iteration of the resolution loop
OtherPropertyId ==
    /\ other.pc = "nb_property_id"
    /\ \E a \in RegistryAnswers(node_type_id, other.nb.properties[other.i].key) :
         LET r == property_id(node_type_id,
                              other.nb.properties[other.i].key, a)
         IN  /\ calls' = Log(r)
             /\ other' = IF r.err # None
                         THEN OtherRaise(r.err)
                         ELSE [other EXCEPT
                                 !.nb.properties[other.i].property_id = r.ret,
                                 !.pc = OtherAfterResolve(other.i),
                                 !.i = other.i + 1]
    /\ UNCHANGED <<client, nb, eb, onchain_edge, frame>>

\* line 44 of the second save (and line 50 when there is no document)
OtherAddProperties ==
    /\ other.pc = "nb_add_properties"
    /\ LET r == add_properties(node_id, other.nb.properties) IN
        /\ calls' = Log(r)
        /\ other' = IF r.err # None
                    THEN OtherRaise(r.err)
                    ELSE IF OtherAfterDocument(0) = "nb_return"
                         THEN [other EXCEPT !.pc = "idle"]
                         ELSE [other EXCEPT !.pc = "nb_add_document", !.i = 1]
    /\ UNCHANGED <<client, nb, eb, onchain_edge, frame>>

\* lines 47-48 of the second save (and line 50 after the last document)
OtherAddDocument ==
    /\ other.pc = "nb_add_document"
    /\ LET r == add_document(node_id, other.nb.documents[other.i]) IN
        /\ calls' = Log(r)
        /\ other' = IF r.err # None
                    THEN OtherRaise(r.err)
                    ELSE IF OtherAfterDocument(other.i) = "nb_return"
                         THEN [other EXCEPT !.pc = "idle"]
                         ELSE [other EXCEPT !.i = other.i + 1]
    /\ UNCHANGED <<client, nb, eb, onchain_edge, frame>>

NextShared ==
    \/ \E name \in GraphNodeNames : Node(name)
    \/ \E key \in Keys, value \in Values :
          /\ nb # NoBuilder
          /\ Len(nb.properties) < MaxShared
          /\ ~other.started
          /\ NbProperty(key, value)
    \/ \E url \in Urls :
          /\ nb # NoBuilder
          /\ Len(nb.documents) < MaxShared
          /\ ~other.started
          /\ NbDocument(url)
    \/ ops = 0 /\ NbSave
    \/ NbPropertyId
    \/ NbAddProperties
    \/ NbAddDocument
    \/ \E name \in GraphNodeNames : OtherNode(name)
    \/ \E key \in Keys, value \in Values : OtherProperty(key, value)
    \/ \E url \in Urls : OtherDocument(url)
    \/ OtherSave
    \/ OtherPropertyId
    \/ OtherAddProperties
    \/ OtherAddDocument

SpecShared == Init /\ [][NextShared]_vars

\* ------------------------------------------------------ the whole session
Next == NextNode \/ NextEdge \/ NextClient

Spec == Init /\ [][Next]_vars

\* ================================================================ claims
\* Helpers of the formulas below.
Finished(o)  == op = o /\ pc = "idle"
Succeeded(o) == Finished(o) /\ error = None
OpsOf(seq)   == [n \in DOMAIN seq |-> seq[n].op]
IsPrefix(s, t) == Len(s) <= Len(t) /\ \A n \in DOMAIN s : s[n] = t[n]
FullyBound   == contract /\ node_type_registry

\* C1: a successful NodeBuilder.save() issued, in this order: add_node;
\* one registry property_id query per accumulated property, for its key,
\* in accumulation order; one add_properties call; one add_document call
\* per accumulated document, in accumulation order - and nothing else.
C1_SaveOrder ==
    Succeeded("NodeBuilder.save") =>
        LET n == Len(nb.properties)
            d == Len(nb.documents)
        IN  /\ Len(OpCalls) = 1 + n + 1 + d
            /\ OpCalls[1].op = "add_node"
            /\ \A k \in 1..n :
                  /\ OpCalls[1 + k].op = "property_id"
                  /\ OpCalls[1 + k].property_key = nb.properties[k].key
            /\ OpCalls[n + 2].op = "add_properties"
            /\ \A k \in 1..d :
                  /\ OpCalls[n + 2 + k].op = "add_document"
                  /\ OpCalls[n + 2 + k].url = nb.documents[k]

\* a save of two properties with different keys and two different
\* documents succeeded
C1_Witness ==
    /\ Succeeded("NodeBuilder.save")
    /\ Len(nb.properties) = 2
    /\ nb.properties[1].key = "k2"
    /\ nb.properties[2].key = "k1"
    /\ nb.documents = <<"u2", "u1">>
    /\ OpsOf(OpCalls) = <<"add_node", "property_id", "property_id",
                          "add_properties", "add_document", "add_document">>

EdgeOps == {"EdgeBuilder.save", "EdgeBuilder.accept", "EdgeBuilder.status"}

\* C2: with to_node never called, save(), accept() and status() of an
\* EdgeBuilder end at once with the unset-target error and issue no call.
C2_UnsetTarget ==
    (op \in EdgeOps /\ eb.to_node_address = NoAddr) =>
        /\ pc = "idle"
        /\ error = TargetError
        /\ OpCalls = << >>

\* save() on a bound client, properties and documents accumulated, no target
C2_Witness ==
    /\ Finished("EdgeBuilder.save")
    /\ FullyBound
    /\ eb.to_node_address = NoAddr
    /\ Len(eb.properties) = 2
    /\ Len(eb.documents) = 2
    /\ error = TargetError

\* C3: with to_node set and the contract bound, status() returns INVALID
\* when the chain holds no record of the edge and the record's stored
\* status otherwise.
C3_Claim ==
    (Finished("EdgeBuilder.status") /\ eb.to_node_address # NoAddr /\ contract) =>
        /\ error = None
        /\ result = IF onchain_edge = NoRecord THEN "INVALID" ELSE onchain_edge[4]

\* C4: accept() with to_node set issues add_edge(edge_name, to, descriptor)
\* and then answer_edge(to, <the id add_edge returned>, ACCEPTED), and
\* nothing else: the calls issued are at every moment a prefix of these
\* two, all of them once accept() has returned, and it returns whenever
\* the client is bound.
C4_Expected ==
    << [op |-> "add_edge", edge_name |-> eb.edge_name,
        to_node_address |-> eb.to_node_address, descriptor |-> eb.descriptor],
       [op |-> "answer_edge", to_node_address |-> eb.to_node_address,
        edge_id |-> "edge_id", status |-> "ACCEPTED"] >>

C4_AcceptCalls ==
    (op = "EdgeBuilder.accept" /\ eb.to_node_address # NoAddr) =>
        /\ IsPrefix(OpCalls, C4_Expected)
        /\ Succeeded("EdgeBuilder.accept") => OpCalls = C4_Expected
        /\ (pc = "idle" /\ FullyBound) => error = None

\* accept() returned on a builder holding properties and documents
C4_Witness ==
    /\ Succeeded("EdgeBuilder.accept")
    /\ eb.to_node_address # NoAddr
    /\ Len(eb.properties) = 2
    /\ Len(eb.documents) = 2
    /\ Len(OpCalls) = 2

\* C5: in one session, add_node is issued at most once per node name.
C5_Claim ==
    \A name \in GraphNodeNames :
        Cardinality({n \in DOMAIN calls :
                        /\ calls[n].op = "add_node"
                        /\ calls[n].graph_node_name = name}) <= 1

\* C6: a successful save() of a NodeBuilder without properties and
\* without documents issues add_node and no other call.
C6_Claim ==
    (Succeeded("NodeBuilder.save") /\ nb.properties = << >> /\ nb.documents = << >>)
        => OpsOf(OpCalls) = <<"add_node">>

\* C7: every property of a batch a builder commit hands to the chain
\* (add_properties, set_edge_properties) carries a non-empty property_id.
C7_Claim ==
    \A n \in DOMAIN calls :
        calls[n].op \in {"add_properties", "set_edge_properties"} =>
            \A k \in DOMAIN calls[n].properties :
                calls[n].properties[k].property_id # ""

\* The registry reads of the running NodeBuilder.save that were answered
Answered ==
    Len(SelectSeq(OpCalls, LAMBDA c : c.op = "property_id"))
        - (IF error = TransportError THEN 1 ELSE 0)

\* C8: once the registry has answered '' for a property key during
\* NodeBuilder.save(), neither add_properties nor add_document is issued
\* and save() raises something that is not a transport failure.
C8_Claim ==
    (/\ op = "NodeBuilder.save"
     /\ \E k \in 1..Answered : nb.properties[k].property_id = "")
        => /\ \A n \in DOMAIN OpCalls :
                 OpCalls[n].op \notin {"add_properties", "add_document"}
           /\ pc = "idle" => error \notin {None, TransportError}

MutatingOps == {"add_node", "add_properties", "add_edge", "set_edge_properties",
                "add_document", "remove_document", "answer_edge"}

\* C9: a mutating client operation called with the contract unbound, or
\* with the registry unbound, raises and issues no call.
C9_Claim ==
    (op \in MutatingOps /\ pc = "idle" /\ (~contract \/ ~node_type_registry)) =>
        /\ error # None
        /\ OpCalls = << >>

\* C10: once the add_node of NodeBuilder.save() has registered the node,
\* the session's node_id and node_type_id are those of that node, and
\* save() returns that node id.
C10_Claim ==
    (op = "NodeBuilder.save" /\ Len(OpCalls) >= 1) =>
        /\ node_id = "generated_node_id"
        /\ node_type_id # ""
        /\ Succeeded("NodeBuilder.save") => result = node_id

\* C11: EdgeBuilder.save() with to_node set issues add_edge; then one
\* set_edge_properties carrying the accumulated properties in their order
\* when there is at least one, none otherwise; then one add_document per
\* accumulated document, in order, against the edge id add_edge returned.
\* The calls issued are at every moment a prefix of that sequence and all
\* of it once save() has returned; it returns that edge id, on every bound
\* client; answer_edge is not part of the sequence.
C11_Expected ==
    << [op |-> "add_edge", edge_name |-> eb.edge_name,
        to_node_address |-> eb.to_node_address, descriptor |-> eb.descriptor] >>
    \o (IF Len(eb.properties) > 0
        THEN << [op |-> "set_edge_properties", edge_id |-> "edge_id",
                 edge_name |-> eb.edge_name, properties |-> eb.properties] >>
        ELSE << >>)
    \o [k \in 1..Len(eb.documents) |->
           [op |-> "add_document", node_id |-> "edge_id", url |-> eb.documents[k]]]

C11_SaveCalls ==
    (op = "EdgeBuilder.save" /\ eb.to_node_address # NoAddr) =>
        /\ IsPrefix(OpCalls, C11_Expected)
        /\ Succeeded("EdgeBuilder.save") =>
              (OpCalls = C11_Expected /\ result = "edge_id")
        /\ (pc = "idle" /\ FullyBound) => error = None

\* save() returned on a builder holding two properties and two documents
C11_Witness ==
    /\ Succeeded("EdgeBuilder.save")
    /\ Len(eb.properties) = 2
    /\ eb.properties[1].key = "k2"
    /\ eb.properties[2].key = "k1"
    /\ eb.documents = <<"u2", "u1">>
    /\ OpsOf(OpCalls) = <<"add_edge", "set_edge_properties",
                          "add_document", "add_document">>

\* The checksum form of the valid addresses
ChecksumForms == [body : AddrBodies, casing : {"checksum"}]

\* every address an EdgeBuilder stores is None or in checksum form
C12_Stored ==
    eb # NoBuilder =>
        /\ eb.from_node_address \in {NoAddr} \cup ChecksumForms
        /\ eb.to_node_address \in {NoAddr} \cup ChecksumForms

\* inputs that differ only in letter case normalise to the same string
C12_CaseBlind ==
    \A r1 \in RawAddrs, r2 \in RawAddrs :
        (CanNormalize(r1) /\ CanNormalize(r2) /\ r1.body = r2.body) =>
            to_checksum_address(r1) = to_checksum_address(r2)

\* a stored address changes only in a from_node / to_node call that
\* returns: a call that raises leaves both stored addresses as they were
C12_Step ==
    (/\ eb # NoBuilder
     /\ \/ eb'.from_node_address # eb.from_node_address
        \/ eb'.to_node_address # eb.to_node_address)
        => /\ op' \in {"EdgeBuilder.from_node", "EdgeBuilder.to_node"}
           /\ error' = None

\* C12: from_node and to_node store the checksum form of their input,
\* the same for inputs that differ only in letter case; an input that
\* cannot be normalised raises and changes no stored address; so every
\* stored address is unset or in checksum form.
C12_Checksummed ==
    /\ [](C12_Stored /\ C12_CaseBlind)
    /\ [][C12_Step]_vars

\* to_node raised on an invalid input after both addresses had been set
C12_Witness ==
    /\ op = "EdgeBuilder.to_node"
    /\ error = "ValueError"
    /\ eb.to_node_address = [body |-> "a1", casing |-> "checksum"]
    /\ eb.from_node_address = [body |-> "a1", casing |-> "checksum"]

CommitOps == {"NodeBuilder.save", "EdgeBuilder.save", "EdgeBuilder.accept"}

\* The calls a commit issues when every step succeeds, by operation name
FullCommit ==
    CASE op = "NodeBuilder.save" ->
            <<"add_node">>
            \o [k \in 1..Len(nb.properties) |-> "property_id"]
            \o <<"add_properties">>
            \o [k \in 1..Len(nb.documents) |-> "add_document"]
      [] op = "EdgeBuilder.save" -> OpsOf(C11_Expected)
      [] op = "EdgeBuilder.accept" -> OpsOf(C4_Expected)

\* a commit that raised has ended, returning nothing, with the calls of a
\* prefix of its sequence issued; a registry read that raised in
\* NodeBuilder.save is followed by no add_properties and no add_document
C13_State ==
    (op \in CommitOps /\ error # None) =>
        /\ pc = "idle"
        /\ result = None
        /\ IsPrefix(OpsOf(OpCalls), FullCommit)
        /\ error = TransportError =>
              /\ OpCalls[Len(OpCalls)].op = "property_id"
              /\ \A n \in DOMAIN OpCalls :
                    OpCalls[n].op \notin {"add_properties", "add_document"}

\* once a commit has raised, it issues no further call
C13_Step ==
    (op \in CommitOps /\ error # None /\ ops' = ops) => calls' = calls

SaveOps == {"NodeBuilder.save", "EdgeBuilder.save"}

\* The documents the builder being saved holds
SavedDocuments ==
    IF op = "NodeBuilder.save" THEN nb.documents ELSE eb.documents

\* The calls of a save that precede its documents: creation and batch
SavePrelude ==
    IF op = "NodeBuilder.save"
    THEN <<"add_node">> \o [k \in 1..Len(nb.properties) |-> "property_id"]
         \o <<"add_properties">>
    ELSE <<"add_edge">>
         \o (IF Len(eb.properties) > 0 THEN <<"set_edge_properties">> ELSE << >>)

\* a document submission of the running save was rejected
DocumentRejected ==
    /\ op \in SaveOps
    /\ error = ContractRevert
    /\ OpCalls # << >>
    /\ OpCalls[Len(OpCalls)].op = "add_document"

\* with the k-th document rejected, what was accepted before it is the
\* creation, the batch and documents 1..k-1, and no remove_document was
\* issued
C14_State ==
    DocumentRejected =>
        LET accepted == SubSeq(OpCalls, 1, Len(OpCalls) - 1)
            k == Len(OpCalls) - Len(SavePrelude)
        IN  /\ pc = "idle"
            /\ k \in 1..Len(SavedDocuments)
            /\ OpCalls[Len(OpCalls)].url = SavedDocuments[k]
            /\ OpsOf(accepted) =
                  SavePrelude \o [n \in 1..(k - 1) |-> "add_document"]
            /\ \A n \in 1..(k - 1) :
                  accepted[Len(SavePrelude) + n].url = SavedDocuments[n]
            /\ \A n \in DOMAIN calls : calls[n].op # "remove_document"

\* after the rejection the save issues nothing: neither the documents
\* that remain nor a call that undoes what was accepted
C14_Step ==
    (DocumentRejected /\ ops' = ops) => calls' = calls

\* C14: a save whose k-th document submission fails leaves the creation,
\* the batch and documents 1..k-1 committed and documents k..n
\* uncommitted, and issues no compensating call.
C14_NoRollback == []C14_State /\ [][C14_Step]_vars

\* the second of two documents of a NodeBuilder was rejected
C14_Witness ==
    /\ Finished("NodeBuilder.save")
    /\ DocumentRejected
    /\ Len(nb.documents) = 2
    /\ OpsOf(OpCalls) = <<"add_node", "property_id", "add_properties",
                          "add_document", "add_document">>

\* The properties the builder being saved holds
SavedProperties ==
    IF op = "NodeBuilder.save" THEN nb.properties ELSE eb.properties

\* The keys of a list of properties, in order
KeysOf(props) == [n \in DOMAIN props |-> props[n].key]

\* The calls of the session's first operation, while the second is current
FirstOpCalls == SubSeq(calls, 1, base)

\* C15: a builder is not consumed by a commit: a save() that follows an
\* earlier save() of the same builder issues the full commit sequence over
\* the unchanged lists, so the property batch and every document are
\* submitted again.
C15_Resave ==
    (op \in SaveOps /\ pc = "idle" /\ error = None /\ ops >= 2) =>
        /\ OpsOf(OpCalls) = FullCommit
        /\ \A n \in DOMAIN SavedDocuments :
              OpCalls[Len(SavePrelude) + n].url = SavedDocuments[n]
        /\ (op = "NodeBuilder.save" \/ Len(eb.properties) > 0) =>
              KeysOf(OpCalls[Len(SavePrelude)].properties) = KeysOf(SavedProperties)
        /\ (ops = 2 /\ Len(FirstOpCalls) = Len(FullCommit)) =>
              /\ OpsOf(FirstOpCalls) = OpsOf(OpCalls)
              /\ \A n \in DOMAIN SavedDocuments :
                    FirstOpCalls[Len(SavePrelude) + n].url = SavedDocuments[n]
              /\ (op = "NodeBuilder.save" \/ Len(eb.properties) > 0) =>
                    KeysOf(FirstOpCalls[Len(SavePrelude)].properties)
                       = KeysOf(SavedProperties)

\* a NodeBuilder with a property and two documents was saved twice, both
\* times to the end
C15_Witness ==
    /\ Succeeded("NodeBuilder.save")
    /\ ops = 2
    /\ Len(nb.properties) = 1
    /\ Len(nb.documents) = 2
    /\ OpsOf(FirstOpCalls) = FullCommit
    /\ OpsOf(OpCalls) = FullCommit
    /\ Cardinality({n \in DOMAIN calls : calls[n].op = "add_document"}) = 4
    /\ Cardinality({n \in DOMAIN calls : calls[n].op = "add_properties"}) = 2

\* The errors of a client that is not configured
ConfigurationErrors ==
    {"Wallet not initialized", "Contract not initialized",
     "Registry not initialized"}

\* The configuration error a mutating call raises on this client, if any
Misconfiguration == FirstError(<<_check_contract, _check_registry>>)

\* C16: a commit (NodeBuilder.save, EdgeBuilder.save, EdgeBuilder.accept)
\* started on a client whose contract handle or registry client is unset
\* raises before any chain or registry call, so nothing is submitted; the
\* exception is the configuration error of the first unset binding, unless
\* the EdgeBuilder has no target, which is reported first.
C16_NoPartialSubmission ==
    (init_error = None /\ ~FullyBound) =>
        /\ calls = << >>
        /\ pc = "idle"
        /\ (op \in CommitOps) =>
              /\ error # None
              /\ result = None
              /\ IF op # "NodeBuilder.save" /\ eb.to_node_address = NoAddr
                 THEN error = TargetError
                 ELSE error = Misconfiguration /\ error \in ConfigurationErrors

\* a NodeBuilder holding a property and two documents was saved on a
\* client with a contract handle and no registry client
C16_Witness ==
    /\ Finished("NodeBuilder.save")
    /\ contract
    /\ ~node_type_registry
    /\ error = "Registry not initialized"
    /\ Len(nb.properties) = 1
    /\ Len(nb.documents) = 2
    /\ calls = << >>

\* Both saves were started, the second one with the first one over
Serialized ==
    /\ ops > 0
    /\ other.started
    /\ other.alone
    /\ base <= other.base

\* The node id add_node returns to the save() of a NodeBuilder
EnsuredNodeId(builder) == add_node(builder.graph_node_name).ret.node_id

\* the session's node id and type are those the client was constructed
\* with: no ensure-node step of either builder writes them
SessionNeverWritten == node_id = "" /\ node_type_id = ""

\* C17: when the save() calls of two NodeBuilders that share a client run
\* one after the other, each builder resolves its property ids with the
\* type, and submits its properties and documents to the id, of the node
\* its own add_node step recorded in the session. (The claim adds that
\* overlapping saves can meet the id/type written by the other builder's
\* add_node; SessionNeverWritten is what the model has to say on that.)
C17_Claim ==
    (Serialized /\ FullyBound) =>
        \A n \in DOMAIN calls :
            /\ calls[n].op = "property_id" => calls[n].node_type_id # ""
            /\ calls[n].op \in {"add_properties", "add_document"} =>
                  calls[n].node_id =
                     EnsuredNodeId(IF n <= other.base THEN nb ELSE other.nb)

\* The edge the chain holds has been answered already
Terminal == onchain_edge # NoRecord /\ onchain_edge[4] \in {"ACCEPTED", "REJECTED"}

\* whatever the chain holds for the edge, answer_edge on a client with a
\* contract handle yields the call for the given edge id and status, and
\* no exception; the edge is never read
C18_State ==
    /\ contract =>
          \A to \in CheckedAddrs, eid \in EdgeIds, status \in Answers :
              answer_edge(to, eid, status) =
                  Returned(None, [op |-> "answer_edge", to_node_address |-> to,
                                  edge_id |-> eid, status |-> status])
    /\ \A n \in DOMAIN calls : calls[n].op # "get_edge"

\* the answer step of accept() forwards ACCEPTED for the edge id add_edge
\* returned and ends the operation without an error
C18_Step ==
    (pc = "eb_answer_edge" /\ contract) =>
        /\ calls' = Append(calls, [op |-> "answer_edge",
                                   to_node_address |-> eb.to_node_address,
                                   edge_id |-> edge_id, status |-> "ACCEPTED"])
        /\ pc' = "idle"
        /\ error' = None

\* C18: answer_edge makes no local check of the edge's lifecycle: with the
\* contract handle bound it forwards the given status for the given edge
\* id without reading the edge or testing that it is Pending, so an answer
\* to an edge that is already Accepted or Rejected is not blocked by the
\* client.
C18_NoLocalLifecycle == []C18_State /\ [][C18_Step]_vars

\* accept() went through on an edge the chain already holds as Rejected
C18_Witness ==
    /\ Succeeded("EdgeBuilder.accept")
    /\ Terminal
    /\ onchain_edge[4] = "REJECTED"
    /\ OpsOf(OpCalls) = <<"add_edge", "answer_edge">>
    /\ OpCalls[2].status = "ACCEPTED"

\* What save(), accept() and status() of the EdgeBuilder may issue, written
\* from every field of the builder but from_node_address
C19_Expected ==
    CASE op = "EdgeBuilder.save" -> C11_Expected
      [] op = "EdgeBuilder.accept" -> C4_Expected
      [] op = "EdgeBuilder.status" ->
            << [op |-> "get_edge", edge_name |-> eb.edge_name,
                to_node_address |-> eb.to_node_address,
                descriptor |-> eb.descriptor] >>

\* How many of them a finished save() or accept() has issued, from the
\* client's bindings and the builder's target
C19_Issued ==
    IF eb.to_node_address = NoAddr \/ ~FullyBound THEN 0 ELSE Len(C19_Expected)

\* C19: the from-address of an EdgeBuilder has no effect on what is
\* committed: the calls of save(), accept() and status(), arguments
\* included, are fixed by the builder's other fields and the client's
\* bindings, whether from_node was called or not and with whichever
\* address; no call carries a from-address.
C19_FromIgnored ==
    (op \in {"EdgeBuilder.save", "EdgeBuilder.accept", "EdgeBuilder.status"}) =>
        /\ IsPrefix(OpCalls, C19_Expected)
        /\ \A n \in DOMAIN OpCalls :
              "from_node_address" \notin DOMAIN OpCalls[n]
        /\ (pc = "idle" /\ op # "EdgeBuilder.status") =>
              Len(OpCalls) = C19_Issued

\* save() went through on a builder whose from-address was set, to an
\* address other than its target
C19_Witness ==
    /\ Succeeded("EdgeBuilder.save")
    /\ eb.from_node_address # NoAddr
    /\ eb.from_node_address # eb.to_node_address
    /\ Len(eb.properties) = 1
    /\ Len(eb.documents) = 1
    /\ OpCalls = C11_Expected

\* construction fails exactly when a node address comes without a private
\* key, and then with the wallet error
C20_Construction ==
    \A cfg \in Configs :
        InitError(cfg) = IF cfg.node_address /\ ~cfg.private_key
                         THEN "Wallet not initialized" ELSE None

\* a client holding a contract handle holds an account; where construction
\* failed there is no client: the error is the wallet error, no account was
\* made, and nothing ever runs
C20_State ==
    /\ C20_Construction
    /\ init_error = None => (contract => account)
    /\ init_error # None =>
          /\ init_error = "Wallet not initialized"
          /\ ~account
          /\ ~contract
          /\ ops = 0
          /\ calls = << >>

\* no operation rebinds the account, the contract handle or the registry
C20_Step ==
    /\ account' = account
    /\ contract' = contract
    /\ node_type_registry' = node_type_registry

\* C20: on a constructed GraphNode a bound contract handle implies a bound
\* account: construction with a node address and no private key raises
\* "Wallet not initialized" and yields no client; no operation afterwards
\* changes the account, the contract handle or the registry binding.
C20_Bindings == []C20_State /\ [][C20_Step]_vars

\* two operations went through on a client holding account and contract
C20_Witness ==
    /\ init_error = None
    /\ account
    /\ contract
    /\ Succeeded("answer_edge")
    /\ ops = 2
    /\ Len(calls) = 2

====
